---- MODULE Spec2Model ----
(***************************************************************************)
(* Voice capture-and-transcription pipeline of thryve_app.                 *)
(*                                                                         *)
(*   Spec         VoiceEntryModal (components/VoiceEntryModal.tsx, the     *)
(*                Web-Speech version) hosted by the health screen, with    *)
(*                the add-metric form of that screen.                      *)
(*   SpecFair     the same, with weak fairness on timers, permission       *)
(*                answers and recognizer events.                           *)
(*   SpecService  ElevenLabsService.speechToText / recordAudio /           *)
(*                fallbackSpeechToText (lib/elevenlabs.ts) driven by       *)
(*                useVoiceChat.startRecording and the chat screen.         *)
(*   SpecServiceFair  the same, with weak fairness on timers, recorder     *)
(*                events, the answer of the fetch and recognizer events.   *)
(*   SpecEdge     one request to the elevenlabs-stt edge function          *)
(*                (supabase/functions/elevenlabs-stt/index.ts), sent by    *)
(*                speechToText or by any other caller.                     *)
(*   SpecParser   parseVoiceTranscriptForMetrics on transcripts of up to   *)
(*                MaxPhrases phrases.                                      *)
(*   SpecSpeech   the speaker control of the chat screen:                  *)
(*                handleTextToSpeech, useVoiceChat.speakText and           *)
(*                ElevenLabsService.textToSpeech.                          *)
(*   SpecChat     sendMessage and handleVoiceInput of the chat screen with *)
(*                the daily count of messages.                             *)
(***************************************************************************)
EXTENDS Integers, Sequences, FiniteSets, TLC

(***************************************************************************)
(* Bounds of the model.                                                    *)
(***************************************************************************)
\* mic presses of one modal that start a flow
MaxFlows == 2
\* speechToText calls of the one service instance
MaxCalls == 2
\* bytes one MediaRecorder delivers
MaxBytes == 2
\* the phrases of a transcript given to the parser on its own
MaxPhrases == 2
\* taps on a speaker control that start a textToSpeech call
MaxSpeaks == 3
\* taps on the send and voice controls of the chat screen
MaxSends == 4

(***************************************************************************)
(* Text.  A string is a sequence of tokens; a token is one whitespace      *)
(* character, a word, or a number (integer digits d, fraction digits f).   *)
(* A captured value (match[1]) is a sequence of characters: the digits     *)
(* 0..9, Slash and Dot.                                                    *)
(***************************************************************************)
Slash == 10
Dot == 11

WS == [k |-> "ws", w |-> " ", d |-> <<>>, f |-> <<>>]
W(s) == [k |-> "w", w |-> s, d |-> <<>>, f |-> <<>>]
N(ds) == [k |-> "n", w |-> "", d |-> ds, f |-> <<>>]
NF(ds, fs) == [k |-> "n", w |-> "", d |-> ds, f |-> fs]

Min(a, b) == IF a < b THEN a ELSE b

\* the element of a one-element set: in The({e(v) : v \in {x}}) the value x is
\* computed once, however often e uses it
The(S) == CHOOSE x \in S : TRUE
Last(s, n) == SubSeq(s, Len(s) - n + 1, Len(s))
First(s, n) == SubSeq(s, 1, n)

\* String.prototype.toLowerCase on one word
LowerWord(s) ==
    CASE s = "Pulse" -> "pulse"
      [] s = "BP" -> "bp"
      [] s = "Over" -> "over"
      [] OTHER -> s

toLowerCase(text) ==
    [i \in 1..Len(text) |->
        IF text[i].k = "w" THEN W(LowerWord(text[i].w)) ELSE text[i]]

\* String.prototype.trim: the text without leading and trailing whitespace
RECURSIVE TrimLeft(_)
TrimLeft(text) ==
    IF text # <<>> /\ Head(text).k = "ws" THEN TrimLeft(Tail(text)) ELSE text

RECURSIVE TrimRight(_)
TrimRight(text) ==
    IF text # <<>> /\ text[Len(text)].k = "ws"
    THEN TrimRight(SubSeq(text, 1, Len(text) - 1))
    ELSE text

trim(text) == TrimRight(TrimLeft(text))

\* a word of the vocabulary that ends with a keyword without being it
EndsWithPairs == {<<"impulse", "pulse">>}

WordEndsWith(s, kw) == s = kw \/ <<s, kw>> \in EndsWithPairs

\* \s+ at position i: the position after the whitespace, 0 when there is none
RECURSIVE SkipWS(_, _)
SkipWS(text, i) ==
    IF i <= Len(text) /\ text[i].k = "ws" THEN SkipWS(text, i + 1) ELSE i

Spaces(text, i) ==
    IF i >= 1 /\ i <= Len(text) /\ text[i].k = "ws" THEN SkipWS(text, i) ELSE 0

\* a keyword (one word, or words joined by single spaces) whose first word
\* ends at or inside token i: the position after it, 0 when it does not match
RECURSIVE RestAt(_, _, _)
RestAt(text, i, kw) ==
    IF kw = <<>> THEN i
    ELSE IF i + 1 <= Len(text) /\ text[i].k = "ws"
            /\ text[i + 1].k = "w" /\ text[i + 1].w = Head(kw)
         THEN RestAt(text, i + 2, Tail(kw))
         ELSE 0

KwAt(text, i, kw, tail) ==
    IF i >= 1 /\ i <= Len(text) /\ text[i].k = "w"
       /\ (IF tail THEN WordEndsWith(text[i].w, kw[1]) ELSE text[i].w = kw[1])
    THEN RestAt(text, i + 1, Tail(kw))
    ELSE 0

AnyKwAt(text, i, kws, tail) ==
    The({IF ends = {} THEN 0 ELSE CHOOSE e \in ends : \A x \in ends : e >= x
         : ends \in {{KwAt(text, i, kw, tail) : kw \in kws} \ {0}}})

\* (?:is\s+)? at position i
OptIs(text, i) ==
    IF KwAt(text, i, <<"is">>, FALSE) # 0 /\ Spaces(text, i + 1) # 0
    THEN Spaces(text, i + 1)
    ELSE i

\* (\d{2,3}) or (\d{2,3}(?:\.\d+)?) closing a pattern, at the start of token i
NumHead(text, i, frac) ==
    IF i >= 1 /\ i <= Len(text) /\ text[i].k = "n" /\ Len(text[i].d) >= 2
    THEN IF frac /\ Len(text[i].d) <= 3 /\ text[i].f # <<>>
         THEN text[i].d \o <<Dot>> \o text[i].f
         ELSE First(text[i].d, Min(3, Len(text[i].d)))
    ELSE <<>>

\* (\d{2,3}) or (\d{2,3}(?:\.\d+)?) followed by \s+, ending with token i:
\* the leftmost start inside the token
NumTail(text, i, frac) ==
    IF i >= 1 /\ i <= Len(text) /\ text[i].k = "n" /\ Spaces(text, i + 1) # 0
    THEN LET t == text[i]
         IN  IF t.f = <<>>
             THEN IF Len(t.d) >= 2 THEN Last(t.d, Min(3, Len(t.d))) ELSE <<>>
             ELSE IF frac /\ Len(t.d) >= 2
                  THEN Last(t.d, Min(3, Len(t.d))) \o <<Dot>> \o t.f
                  ELSE IF Len(t.f) >= 2 THEN Last(t.f, Min(3, Len(t.f)))
                       ELSE <<>>
    ELSE <<>>

\* (\d{2,3}) between \s+ and \s+: the whole of token i
NumWhole(text, i) ==
    IF i >= 1 /\ i <= Len(text) /\ text[i].k = "n" /\ text[i].f = <<>>
       /\ Len(text[i].d) \in {2, 3} /\ Spaces(text, i + 1) # 0
    THEN text[i].d
    ELSE <<>>

\* keyword \s+ (?:is\s+)? number, starting at token i
KwNumAt(text, i, kws, frac) ==
    The({IF e = 0 \/ Spaces(text, e) = 0 THEN <<>>
         ELSE The({NumHead(text, n, frac) : n \in {OptIs(text, Spaces(text, e))}})
         : e \in {AnyKwAt(text, i, kws, TRUE)}})

\* number \s+ unit, the number ending with token i
NumKwAt(text, i, units, frac) ==
    IF NumTail(text, i, frac) # <<>>
       /\ AnyKwAt(text, Spaces(text, i + 1), units, FALSE) # 0
    THEN NumTail(text, i, frac)
    ELSE <<>>

\* text.match(pattern)[1] of the leftmost match, <<>> when there is none
Leftmost(text, At(_)) ==
    The({IF hits = {} THEN <<>>
         ELSE At(CHOOSE i \in hits : \A j \in hits : i <= j)
         : hits \in {{i \in 1..Len(text) : At(i) # <<>>}}})

MatchKwNum(text, kws, frac) ==
    LET At(i) == KwNumAt(text, i, kws, frac) IN Leftmost(text, At)

MatchNumKw(text, units, frac) ==
    LET At(i) == NumKwAt(text, i, units, frac) IN Leftmost(text, At)

\* number \s+ (?:over|/) \s+ number, the first number at token i; the pair
\* <<match[1], match[2]>>
OverAt(text, i, n1) ==
    IF n1 = <<>> \/ Spaces(text, i + 1) = 0 THEN <<>>
    ELSE The({IF m # 0 /\ NumHead(text, m, FALSE) # <<>>
              THEN <<n1, NumHead(text, m, FALSE)>>
              ELSE <<>>
              : m \in {Spaces(text, AnyKwAt(text, Spaces(text, i + 1),
                                            {<<"over">>, <<"/">>}, FALSE))}})

BpKwAt(text, i) ==
    The({IF e = 0 \/ Spaces(text, e) = 0 THEN <<>>
         ELSE The({The({OverAt(text, n, n1) : n1 \in {NumWhole(text, n)}})
                   : n \in {OptIs(text, Spaces(text, e))}})
         : e \in {AnyKwAt(text, i, {<<"blood", "pressure">>, <<"bp">>, <<"pressure">>},
                          TRUE)}})

BpBareAt(text, i) == The({OverAt(text, i, n1) : n1 \in {NumTail(text, i, FALSE)}})

\* String.prototype.includes
Includes(s, sub) ==
    \E i \in 0..(Len(s) - Len(sub)) : SubSeq(s, i + 1, i + Len(sub)) = sub

FirstOf(a, b) == The({IF x # <<>> THEN x ELSE b : x \in {a}})

NoMetrics ==
    [blood_pressure |-> <<>>, heart_rate |-> <<>>, weight |-> <<>>,
     blood_glucose |-> <<>>, temperature |-> <<>>]

MetricTypes == DOMAIN NoMetrics

\* Object.keys(metrics) / Object.values(metrics)
Keys(m) == {t \in MetricTypes : m[t] # <<>>}
Values(m) == {m[t] : t \in Keys(m)}

\* for (const pattern of patterns): the first pattern that matches and passes
\* the test sets the metric
FirstPassing(a, b, Ok(_)) ==
    The({IF x # <<>> /\ Ok(x) THEN x
         ELSE The({IF y # <<>> /\ Ok(y) THEN y ELSE <<>> : y \in {b}})
         : x \in {a}})

\* the match of the first blood pressure pattern that matches: the pair
\* <<match[1], match[2]>>, <<>> when none matches
BpMatch(text) ==
    LET At1(i) == BpKwAt(text, i)
        At2(i) == BpBareAt(text, i)
    IN  FirstOf(Leftmost(text, At1), Leftmost(text, At2))

\* the blood pressure block
BloodPressure(text) ==
    The({IF bpm = <<>> THEN NoMetrics
         ELSE [NoMetrics EXCEPT !.blood_pressure = bpm[1] \o <<Slash>> \o bpm[2]]
         : bpm \in {BpMatch(text)}})

\* a heart rate block that takes the first match whatever the blood pressure
HeartRateUnchecked(text, metrics) ==
    [metrics EXCEPT !.heart_rate =
        FirstOf(
            MatchKwNum(text, {<<"heart", "rate">>, <<"pulse">>, <<"hr">>}, FALSE),
            MatchNumKw(text, {<<"beats", "per", "minute">>, <<"bpm">>}, FALSE))]

\* the heart rate block: !metrics.blood_pressure?.includes(match[1])
HeartRate(text, metrics) ==
    LET NotInBp(v) == ~Includes(metrics.blood_pressure, v)
    IN  [metrics EXCEPT !.heart_rate =
            FirstPassing(
                MatchKwNum(text, {<<"heart", "rate">>, <<"pulse">>, <<"hr">>}, FALSE),
                MatchNumKw(text, {<<"beats", "per", "minute">>, <<"bpm">>}, FALSE),
                NotInBp)]

\* a weight block that skips a number met before
WeightChecked(text, metrics) ==
    LET Fresh(v) == v \notin Values(metrics) /\ ~Includes(metrics.blood_pressure, v)
    IN  [metrics EXCEPT !.weight =
            FirstPassing(
                MatchKwNum(text, {<<"weight">>, <<"weigh">>}, TRUE),
                MatchNumKw(text, {<<"pounds">>, <<"lbs">>, <<"kilograms">>, <<"kg">>},
                           TRUE),
                Fresh)]

\* the weight block
Weight(text, metrics) ==
    [metrics EXCEPT !.weight =
        FirstOf(
            MatchKwNum(text, {<<"weight">>, <<"weigh">>}, TRUE),
            MatchNumKw(text, {<<"pounds">>, <<"lbs">>, <<"kilograms">>, <<"kg">>}, TRUE))]

\* the blood glucose block: !Object.values(metrics).includes(match[1])
BloodGlucose(text, metrics) ==
    LET Fresh(v) == v \notin Values(metrics)
    IN  [metrics EXCEPT !.blood_glucose =
            FirstPassing(
                MatchKwNum(text, {<<"blood", "glucose">>, <<"blood", "sugar">>,
                                  <<"glucose">>, <<"sugar">>}, FALSE),
                MatchNumKw(text, {<<"mg/dl">>, <<"milligrams">>}, FALSE),
                Fresh)]

\* the temperature block: !Object.values(metrics).includes(match[1])
Temperature(text, metrics) ==
    LET Fresh(v) == v \notin Values(metrics)
    IN  [metrics EXCEPT !.temperature =
            FirstPassing(
                MatchKwNum(text, {<<"temperature">>, <<"temp">>}, TRUE),
                MatchNumKw(text, {<<"degrees">>, <<"fahrenheit">>, <<"celsius">>}, TRUE),
                Fresh)]

\* the five blocks in the order of the code, each on the metrics so far
Blocks(text) ==
    The({Temperature(text, m4) :
         m4 \in {BloodGlucose(text, m3) :
         m3 \in {Weight(text, m2) :
         m2 \in {HeartRate(text, m1) :
         m1 \in {BloodPressure(text)}}}}})

parseVoiceTranscriptForMetrics(transcript) ==
    The({Blocks(text) : text \in {toLowerCase(transcript)}})

(***************************************************************************)
(* State.                                                                  *)
(***************************************************************************)
VARIABLES
    isPremium,      \* subscriptionStatus.isPremium
    browser,        \* what the runtime offers: mediaDevices, speechRecognition, mediaRecorder
    visible,        \* showVoiceModal of the health screen, the modal's visible prop
    showAddModal,   \* showAddModal of the health screen
    metricValues,   \* the add-metric form of the health screen
    submitting,     \* submitting of the health screen: a Save is under way
    voiceState,     \* VoiceEntryModal.voiceState
    errorMessage,   \* VoiceEntryModal.errorMessage
    flows,          \* the handleMicPress invocations that passed the guards
    lastPress,      \* what the tap on the mic control did, when the latest step was one
    calls,          \* the speechToText calls of the ElevenLabsService instance
    isRecording,    \* useVoiceChat.isRecording of the chat screen
    edge,           \* one request to the elevenlabs-stt edge function
    extract,        \* one call of parseVoiceTranscriptForMetrics
    speech,         \* useVoiceChat's playback state and the textToSpeech calls
    chat            \* the chat screen's daily message count and its sends

modalVars == <<isPremium, visible, showAddModal, metricValues, submitting, voiceState,
               errorMessage, flows, lastPress>>
serviceVars == <<calls, isRecording>>
otherVars == <<edge, extract, speech, chat>>
vars == <<isPremium, browser, visible, showAddModal, metricValues, submitting, voiceState,
          errorMessage, flows, lastPress, calls, isRecording, edge, extract,
          speech, chat>>

\* the value of a variable that belongs to a part of the app which the
\* specification at hand does not run
Off == <<>>

(***************************************************************************)
(* VoiceEntryModal: messages and errors.                                   *)
(***************************************************************************)
Msg(s) == [text |-> s, heard |-> <<>>]
NoMessage == Msg("")
NoSpeechMsg == Msg("No speech detected. Please speak clearly and try again.")
HeardMsg(t) == [text |-> "I heard: ... But I couldn't detect any health metrics.", heard |-> t]
DeniedMsg == Msg("Microphone access denied. Please allow microphone permissions and try again.")
NoMicMsg == Msg("No microphone found. Please connect a microphone and try again.")
UnsupportedMsg == Msg("Voice recording is not supported in this browser. Please use Chrome, Edge, or Safari.")

\* error.message.includes(sub), for the messages the flow can meet
MessageIncludes(m, sub) ==
    <<m, sub>> \in {
        <<"Microphone access not supported in this browser", "not supported">>,
        <<"Speech recognition not supported in this browser", "not supported">>,
        <<"Permission denied", "denied">>,
        <<"Microphone access denied. Please allow microphone permissions.", "denied">>}

\* the catch block of handleMicPress: the message shown for an Error
CatchMessage(m) ==
    IF MessageIncludes(m, "denied") \/ MessageIncludes(m, "NotAllowedError")
    THEN DeniedMsg
    ELSE IF MessageIncludes(m, "NotFoundError") THEN NoMicMsg
    ELSE IF MessageIncludes(m, "not supported") THEN UnsupportedMsg
    ELSE Msg(m)

\* the messages of the DOMExceptions getUserMedia rejects with
GumErrors == {"Permission denied", "Requested device not found"}

\* recognition.onerror: event.error to the message of the rejection
RecognitionErrors == {"no-speech", "audio-capture", "not-allowed", "network", "aborted"}

RecognitionMessage(code) ==
    CASE code = "no-speech" -> "No speech detected. Please speak clearly and try again."
      [] code = "audio-capture" -> "Microphone not accessible. Please check your microphone."
      [] code = "not-allowed" -> "Microphone access denied. Please allow microphone permissions."
      [] code = "network" -> "Network error. Please check your internet connection."
      [] OTHER -> "Speech recognition failed"

\* what the recognizer can hear
Spaced(ws) ==
    [i \in 1..(2 * Len(ws) - 1) |-> IF i % 2 = 1 THEN ws[(i + 1) \div 2] ELSE WS]

Transcripts ==
    { <<>>,
      <<WS>>,
      Spaced(<<W("hello"), W("there")>>),
      Spaced(<<W("Pulse"), N(<<7, 2>>)>>) }

(***************************************************************************)
(* VoiceEntryModal: one flow is one invocation of handleMicPress past its  *)
(* guards.  pc is where the invocation or its timers stand:                *)
(*   unused, gum (awaiting getUserMedia), recog (awaiting                  *)
(*   startWebSpeechRecognition), errTimer (auto-reset pending), succTimer  *)
(*   (1000 ms pending), parsedTimer (100 ms pending), done.  MaxFlows is   *)
(* the number of invocations that are not done at one time.                *)
(* sess is the SpeechRecognition object of the flow:                       *)
(*   none, starting (start() called), active (onstart ran, the 10 s timer  *)
(*   is pending), stopping (the timer called stop()), ended.               *)
(* transcript is the local of that name: <<>> until the recognizer         *)
(* resolved, <<t>> for the text t from then until the invocation is done.  *)
(***************************************************************************)
Flows == 1..MaxFlows

NoFlow ==
    [pc |-> "unused", sess |-> "none", outcome |-> "none", metrics |-> NoMetrics,
     closeCalls |-> 0, parsedCalls |-> 0, cancelled |-> FALSE,
     transcript |-> <<>>]

\* a record of the model that no invocation occupies: never used, or used by
\* an invocation whose last timer has fired
Free(f) == flows[f].pc \in {"unused", "done"}

InFlight(f) == flows[f].pc \in {"gum", "recog"}
SessionLive(f) == flows[f].sess \in {"starting", "active", "stopping"}

\* a variant of the flag that is on for every user
voiceEntryForEveryone == TRUE

\* getPremiumFeatures().voiceEntryForHealthMetrics
voiceEntryForHealthMetrics == isPremium

isButtonDisabled ==
    \/ ~voiceEntryForHealthMetrics
    \/ voiceState = "processing"
    \/ voiceState = "success"

\* a handler without the guard
PressNeverBlocked == FALSE

\* handleMicPress: the guard "Prevent multiple recordings"
PressBlocked == voiceState # "idle" /\ voiceState # "error"

\* useEffect([visible]): runs when the prop changes
VisibleEffect(now) ==
    IF now # visible
    THEN voiceState' = "idle" /\ errorMessage' = NoMessage
    ELSE UNCHANGED <<voiceState, errorMessage>>

\* a catch block that swallows the error
CaughtSilently(f, m) ==
    /\ UNCHANGED <<voiceState, errorMessage>>
    /\ flows' = [flows EXCEPT ![f] = [NoFlow EXCEPT !.pc = "errTimer",
                                                     !.outcome = "error",
                                                     !.cancelled = flows[f].cancelled]]

\* the catch block of handleMicPress, for flow f
Caught(f, m) ==
    /\ voiceState' = "error"
    /\ errorMessage' = CatchMessage(m)
    /\ flows' = [flows EXCEPT ![f] = [NoFlow EXCEPT !.pc = "errTimer",
                                                     !.outcome = "error",
                                                     !.cancelled = flows[f].cancelled]]

\* what parseVoiceTranscriptForMetrics returns for each transcript the
\* recognizer may deliver, computed once
ParsedTranscripts ==
    {<<t, parseVoiceTranscriptForMetrics(t)>> : t \in Transcripts}

\* parseVoiceTranscriptForMetrics(transcript) for a transcript of the
\* recognizer
Parsed(transcript) ==
    The({p[2] : p \in {q \in ParsedTranscripts : q[1] = transcript}})

\* a variant of the continuation that does not count the extracted metrics
TranscribedUncounted(f, transcript) ==
    IF transcript # <<>> /\ trim(transcript) # <<>>
    THEN /\ voiceState' = "success"
         /\ UNCHANGED errorMessage
         /\ flows' = [flows EXCEPT ![f].pc = "succTimer", ![f].sess = "none",
                                   ![f].transcript = <<transcript>>,
                                   ![f].outcome = "success",
                                   ![f].metrics =
                                       Parsed(transcript)]
    ELSE /\ voiceState' = "error"
         /\ errorMessage' = NoSpeechMsg
         /\ flows' = [flows EXCEPT ![f].pc = "errTimer", ![f].sess = "none",
                                   ![f].transcript = <<transcript>>,
                                   ![f].outcome = "error"]

\* a variant of the continuation that does not trim the transcript
TranscribedUntrimmed(f, transcript) ==
    IF transcript # <<>>
    THEN LET parsedMetrics == Parsed(transcript)
         IN  IF Cardinality(Keys(parsedMetrics)) > 0
             THEN /\ voiceState' = "success"
                  /\ UNCHANGED errorMessage
                  /\ flows' = [flows EXCEPT ![f].pc = "succTimer", ![f].sess = "none",
                                            ![f].transcript = <<transcript>>,
                                            ![f].outcome = "success",
                                            ![f].metrics = parsedMetrics]
             ELSE /\ voiceState' = "error"
                  /\ errorMessage' = HeardMsg(transcript)
                  /\ flows' = [flows EXCEPT ![f].pc = "errTimer", ![f].sess = "none",
                                            ![f].transcript = <<transcript>>,
                                            ![f].outcome = "error"]
    ELSE /\ voiceState' = "error"
         /\ errorMessage' = NoSpeechMsg
         /\ flows' = [flows EXCEPT ![f].pc = "errTimer", ![f].sess = "none",
                                   ![f].transcript = <<transcript>>,
                                   ![f].outcome = "error"]

\* the continuation of handleMicPress after the transcript arrived
Transcribed(f, transcript) ==
    IF transcript # <<>> /\ trim(transcript) # <<>>
    THEN LET parsedMetrics == Parsed(transcript)
         IN  IF Cardinality(Keys(parsedMetrics)) > 0
             THEN /\ voiceState' = "success"
                  /\ UNCHANGED errorMessage
                  /\ flows' = [flows EXCEPT ![f].pc = "succTimer", ![f].sess = "none",
                                   ![f].transcript = <<transcript>>,
                                            ![f].outcome = "success",
                                            ![f].metrics = parsedMetrics]
             ELSE /\ voiceState' = "error"
                  /\ errorMessage' = HeardMsg(transcript)
                  /\ flows' = [flows EXCEPT ![f].pc = "errTimer", ![f].sess = "none",
                                   ![f].transcript = <<transcript>>,
                                            ![f].outcome = "error"]
    ELSE /\ voiceState' = "error"
         /\ errorMessage' = NoSpeechMsg
         /\ flows' = [flows EXCEPT ![f].pc = "errTimer", ![f].sess = "none",
                                   ![f].transcript = <<transcript>>,
                                   ![f].outcome = "error"]

\* handleMicPress up to its first await
handleMicPress ==
    IF ~voiceEntryForHealthMetrics
    THEN /\ lastPress' = "premium"
         /\ UNCHANGED <<voiceState, errorMessage, flows>>
    ELSE IF PressBlocked
    THEN /\ lastPress' = "blocked"
         /\ UNCHANGED <<voiceState, errorMessage, flows>>
    ELSE \E f \in Flows :
           /\ Free(f)
           /\ \A g \in Flows : g < f => ~Free(g)
           /\ lastPress' = "started"
           /\ IF browser.mediaDevices
              THEN /\ voiceState' = "recording"
                   /\ errorMessage' = NoMessage
                   /\ flows' = [flows EXCEPT ![f] = [NoFlow EXCEPT !.pc = "gum"]]
              ELSE /\ voiceState' = "error"
                   /\ errorMessage' =
                        CatchMessage("Microphone access not supported in this browser")
                   /\ flows' = [flows EXCEPT ![f] = [NoFlow EXCEPT !.pc = "errTimer",
                                                                    !.outcome = "error"]]

\* the user taps the mic control of the visible modal
MicPress ==
    /\ visible
    /\ IF isButtonDisabled
       THEN /\ lastPress' = "disabled"
            /\ UNCHANGED <<voiceState, errorMessage, flows>>
       ELSE handleMicPress
    /\ UNCHANGED <<isPremium, browser, visible, showAddModal, metricValues, submitting>>
    /\ UNCHANGED serviceVars
    /\ UNCHANGED otherVars

\* getUserMedia resolves: the test stream is stopped, the recognizer is started
GumGrant(f) ==
    /\ flows[f].pc = "gum"
    /\ IF ~browser.speechRecognition
       THEN Caught(f, "Speech recognition not supported in this browser")
       ELSE \E startThrows \in BOOLEAN :
              IF startThrows
              THEN Caught(f, "Failed to start speech recognition")
              ELSE /\ voiceState' = "processing"
                   /\ flows' = [flows EXCEPT ![f].pc = "recog", ![f].sess = "starting"]
                   /\ UNCHANGED errorMessage
    /\ lastPress' = "none"
    /\ UNCHANGED <<isPremium, browser, visible, showAddModal, metricValues, submitting>>
    /\ UNCHANGED serviceVars
    /\ UNCHANGED otherVars

\* getUserMedia rejects
GumDeny(f) ==
    /\ flows[f].pc = "gum"
    /\ \E m \in GumErrors : Caught(f, m)
    /\ lastPress' = "none"
    /\ UNCHANGED <<isPremium, browser, visible, showAddModal, metricValues, submitting>>
    /\ UNCHANGED serviceVars
    /\ UNCHANGED otherVars

\* recognition.onstart: the 10 s timer is set
RecognitionStart(f) ==
    /\ flows[f].pc = "recog" /\ flows[f].sess = "starting"
    /\ flows' = [flows EXCEPT ![f].sess = "active"]
    /\ lastPress' = "none"
    /\ UNCHANGED <<isPremium, browser, visible, showAddModal, metricValues, submitting,
                   voiceState, errorMessage>>
    /\ UNCHANGED serviceVars
    /\ UNCHANGED otherVars

\* the 10 s timer: recognition.stop()
RecognitionTimeout(f) ==
    /\ flows[f].pc = "recog" /\ flows[f].sess = "active"
    /\ flows' = [flows EXCEPT ![f].sess = "stopping"]
    /\ lastPress' = "none"
    /\ UNCHANGED <<isPremium, browser, visible, showAddModal, metricValues, submitting,
                   voiceState, errorMessage>>
    /\ UNCHANGED serviceVars
    /\ UNCHANGED otherVars

\* recognition.onresult: resolve(transcript), then the rest of handleMicPress
RecognitionResult(f) ==
    /\ flows[f].pc = "recog" /\ flows[f].sess \in {"active", "stopping"}
    /\ \E t \in Transcripts : Transcribed(f, t)
    /\ lastPress' = "none"
    /\ UNCHANGED <<isPremium, browser, visible, showAddModal, metricValues, submitting>>
    /\ UNCHANGED serviceVars
    /\ UNCHANGED otherVars

\* recognition.onerror: reject(new Error(...)), then the catch block
RecognitionError(f) ==
    /\ flows[f].pc = "recog" /\ SessionLive(f)
    /\ \E code \in RecognitionErrors : Caught(f, RecognitionMessage(code))
    /\ lastPress' = "none"
    /\ UNCHANGED <<isPremium, browser, visible, showAddModal, metricValues, submitting>>
    /\ UNCHANGED serviceVars
    /\ UNCHANGED otherVars

\* recognition.onend of a session that was stopped and heard nothing: the
\* promise of startWebSpeechRecognition is neither resolved nor rejected
RecognitionEnd(f) ==
    /\ flows[f].pc = "recog" /\ flows[f].sess = "stopping"
    /\ flows' = [flows EXCEPT ![f].sess = "ended"]
    /\ lastPress' = "none"
    /\ UNCHANGED <<isPremium, browser, visible, showAddModal, metricValues, submitting,
                   voiceState, errorMessage>>
    /\ UNCHANGED serviceVars
    /\ UNCHANGED otherVars

\* setTimeout(..., 3000 or 5000) after an error
ErrorResetTimer(f) ==
    /\ flows[f].pc = "errTimer"
    /\ voiceState' = "idle"
    /\ errorMessage' = NoMessage
    /\ flows' = [flows EXCEPT ![f].pc = "done", ![f].transcript = <<>>]
    /\ lastPress' = "none"
    /\ UNCHANGED <<isPremium, browser, visible, showAddModal, metricValues, submitting>>
    /\ UNCHANGED serviceVars
    /\ UNCHANGED otherVars

\* setTimeout(..., 1000) after success: onClose(), then the 100 ms timer
SuccessTimer(f) ==
    /\ flows[f].pc = "succTimer"
    /\ visible' = FALSE
    /\ VisibleEffect(FALSE)
    /\ flows' = [g \in Flows |->
                   IF g = f
                   THEN [flows[g] EXCEPT !.pc = "parsedTimer",
                                         !.closeCalls = flows[g].closeCalls + 1]
                   ELSE IF InFlight(g) /\ visible
                        THEN [flows[g] EXCEPT !.cancelled = TRUE]
                        ELSE flows[g]]
    /\ lastPress' = "none"
    /\ UNCHANGED <<isPremium, browser, showAddModal, metricValues, submitting>>
    /\ UNCHANGED serviceVars
    /\ UNCHANGED otherVars

\* handleVoiceDataParsed of the health screen
handleVoiceDataParsed(parsedData) ==
    /\ metricValues' = [t \in MetricTypes |->
                          IF parsedData[t] # <<>> THEN parsedData[t]
                          ELSE metricValues[t]]
    /\ visible' = FALSE
    /\ VisibleEffect(FALSE)
    /\ showAddModal' = TRUE
    /\ UNCHANGED submitting

\* setTimeout(..., 100): onVoiceDataParsed(parsedMetrics)
ParsedTimer(f) ==
    /\ flows[f].pc = "parsedTimer"
    /\ handleVoiceDataParsed(flows[f].metrics)
    /\ flows' = [g \in Flows |->
                   IF g = f
                   THEN [flows[g] EXCEPT !.pc = "done", !.transcript = <<>>,
                                         !.parsedCalls = flows[g].parsedCalls + 1]
                   ELSE IF InFlight(g) /\ visible
                        THEN [flows[g] EXCEPT !.cancelled = TRUE]
                        ELSE flows[g]]
    /\ lastPress' = "none"
    /\ UNCHANGED <<isPremium, browser>>
    /\ UNCHANGED serviceVars
    /\ UNCHANGED otherVars

\* what the user types into a value field of the add modal: "75" for the
\* heart rate
FormInputs == {[type |-> "heart_rate", value |-> <<7, 5>>]}

FormStep ==
    /\ lastPress' = "none"
    /\ UNCHANGED <<isPremium, browser, visible, voiceState, errorMessage, flows>>
    /\ UNCHANGED serviceVars
    /\ UNCHANGED otherVars

\* Add Reading: setShowAddModal(true)
AddReading ==
    /\ ~showAddModal
    /\ showAddModal' = TRUE
    /\ UNCHANGED <<metricValues, submitting>>
    /\ FormStep

\* the X of the add modal, onRequestClose, handleCloseAddModal: the form
\* keeps its values
handleCloseAddModal ==
    /\ showAddModal
    /\ showAddModal' = FALSE
    /\ UNCHANGED <<metricValues, submitting>>
    /\ FormStep

\* onChangeText of a value field
updateMetricValue ==
    /\ showAddModal
    /\ \E input \in FormInputs :
         /\ metricValues[input.type] # input.value
         /\ metricValues' = [metricValues EXCEPT ![input.type] = input.value]
    /\ UNCHANGED <<showAddModal, submitting>>
    /\ FormStep

\* Save, up to the first `await addMetric(metric)`: with no value there is
\* an Alert and nothing else, with one the metrics to add are fixed
handleAddMetric ==
    /\ showAddModal
    /\ ~submitting
    /\ Keys(metricValues) # {}
    /\ submitting' = TRUE
    /\ UNCHANGED <<showAddModal, metricValues>>
    /\ FormStep

resetForm == metricValues' = NoMetrics

\* the addMetric calls of a Save return: one with an error, or all without
AddMetricReturns ==
    /\ submitting
    /\ submitting' = FALSE
    /\ \E error \in BOOLEAN :
         IF error
         THEN UNCHANGED <<showAddModal, metricValues>>
         ELSE /\ showAddModal' = FALSE
              /\ resetForm
    /\ FormStep

\* handleVoiceEntryModal of the health screen
OpenModal ==
    /\ ~visible
    /\ visible' = TRUE
    /\ VisibleEffect(TRUE)
    /\ lastPress' = "none"
    /\ UNCHANGED <<isPremium, browser, showAddModal, metricValues, submitting, flows>>
    /\ UNCHANGED serviceVars
    /\ UNCHANGED otherVars

\* Cancel or onRequestClose: handleCloseVoiceModal of the health screen
CloseModal ==
    /\ visible
    /\ visible' = FALSE
    /\ VisibleEffect(FALSE)
    /\ flows' = [g \in Flows |->
                   IF InFlight(g) THEN [flows[g] EXCEPT !.cancelled = TRUE]
                   ELSE flows[g]]
    /\ lastPress' = "none"
    /\ UNCHANGED <<isPremium, browser, showAddModal, metricValues, submitting>>
    /\ UNCHANGED serviceVars
    /\ UNCHANGED otherVars

(***************************************************************************)
(* ElevenLabsService: one call is one invocation of speechToText.  pc is   *)
(* where it stands:                                                        *)
(*   unused, gum (recordAudio awaits getUserMedia), recording (recordAudio *)
(*   awaits the MediaRecorder), fetch (awaiting the edge function),        *)
(*   fallback (awaiting fallbackSpeechToText), resolved, rejected.         *)
(* rec is the promise of recordAudio, stream the tracks of the stream it   *)
(* obtained, recorder the MediaRecorder.state, bytes the size of the       *)
(* chunks pushed and then of audioData, primaryError what the catch of     *)
(* speechToText caught, sess the SpeechRecognition object of the fallback  *)
(* (as for the modal).  The locals of a function that has returned are     *)
(* reset: the chunks once the request is answered.  requests counts the    *)
(* fetches of the edge function, fallbacks the calls of                    *)
(* fallbackSpeechToText.                                                   *)
(***************************************************************************)
Calls == 1..MaxCalls

NoCall ==
    [pc |-> "unused", rec |-> "none", stream |-> "none", recorder |-> "none",
     bytes |-> 0, hasData |-> FALSE, primaryError |-> "none", sess |-> "none",
     heard |-> <<>>, via |-> "none", text |-> <<>>, error |-> "",
     requests |-> 0, fallbacks |-> 0]

\* recognition.onerror of fallbackSpeechToText: event.error to the message
FallbackMessage(code) ==
    CASE code = "no-speech" -> "No speech detected. Please speak clearly and try again."
      [] code = "audio-capture" -> "Microphone not accessible. Please check your microphone permissions."
      [] code = "not-allowed" -> "Microphone access denied. Please allow microphone permissions and try again."
      [] code = "network" -> "Network error occurred. Please check your internet connection."
      [] OTHER -> "Speech recognition failed. Please try again."

\* the event.error values the recognizer of the fallback reports here
FallbackErrors == {"no-speech", "not-allowed", "aborted"}

\* a service that starts the recognizer again when the recognizer failed
RejectedRetried(call, message) ==
    IF call.pc = "fallback" /\ call.fallbacks < 2
    THEN [call EXCEPT !.sess = "starting", !.fallbacks = call.fallbacks + 1]
    ELSE [call EXCEPT !.pc = "rejected", !.sess = "none", !.error = message]

\* the promise of speechToText settles
Rejected(call, message) ==
    [call EXCEPT !.pc = "rejected", !.sess = "none",
                 !.error = message]

Resolved(call, via, text) ==
    [call EXCEPT !.pc = "resolved", !.sess = "none",
                 !.via = via, !.text = text]

\* fallbackSpeechToText up to recognition.start()
fallbackSpeechToText(call) ==
    LET entered == [call EXCEPT !.fallbacks = call.fallbacks + 1]
    IN  IF ~browser.speechRecognition
        THEN {Rejected(entered, "Speech recognition is not supported in this browser. Please use Chrome, Edge, or Safari.")}
        ELSE {Rejected(entered, "Failed to start speech recognition. Please try again."),
              [entered EXCEPT !.pc = "fallback", !.sess = "starting"]}

\* a variant of the catch that rethrows what the primary path threw
PrimaryFailedSurfaced(call, reason) ==
    {Rejected([call EXCEPT !.primaryError = reason, !.bytes = 0, !.hasData = FALSE],
              "ElevenLabs STT service unavailable")}

\* catch (elevenlabsError) of speechToText: whatever the primary path threw,
\* the call goes on with the fallback
PrimaryFailed(call, reason) ==
    fallbackSpeechToText([call EXCEPT !.primaryError = reason, !.bytes = 0,
                                      !.hasData = FALSE])

\* recordAudio rejected: the rejection reaches the catch of speechToText
RecordRejected(call, reason) ==
    PrimaryFailed([call EXCEPT !.rec = "rejected"], reason)

\* speechToText after recordAudio resolved with audioData: the length check
\* and the request to the edge function
Recorded(call, byteLength) ==
    IF byteLength = 0
    THEN PrimaryFailed(call, "No audio data recorded.")
    ELSE {[call EXCEPT !.pc = "fetch", !.bytes = byteLength, !.hasData = FALSE,
                       !.requests = call.requests + 1]}

\* a variant of onstop that resolves at once with whatever the chunks hold
onstopUnchecked(call) ==
    Recorded([call EXCEPT !.stream = "stopped", !.rec = "resolved"], call.bytes)

\* mediaRecorder.onstop up to `await audioBlob.arrayBuffer()`: the tracks are
\* stopped; without data the promise is rejected, with data the handler
\* waits for the bytes of the blob
onstop(call) ==
    LET stopped == [call EXCEPT !.stream = "stopped"]
    IN  IF ~call.hasData
        THEN RecordRejected(stopped, "No audio data was recorded.")
        ELSE {stopped}

\* mediaRecorder.onstop after audioBlob.arrayBuffer() resolved
onstopRead(call) ==
    IF call.bytes = 0
    THEN RecordRejected(call, "No audio data recorded.")
    ELSE Recorded([call EXCEPT !.rec = "resolved"], call.bytes)

\* recordAudio after getUserMedia resolved with a stream
Streamed(call) ==
    LET live == [call EXCEPT !.stream = "live"]
    IN  IF ~browser.mediaRecorder
        THEN RecordRejected([live EXCEPT !.stream = "stopped"],
                            "Audio recording is not supported in this browser.")
        ELSE \* new MediaRecorder(...) throws, mediaRecorder.start() throws, or
             \* the recorder records
             RecordRejected(live, "NotSupportedError")
             \cup RecordRejected(live, "InvalidStateError")
             \cup {[live EXCEPT !.pc = "recording", !.recorder = "recording"]}

\* recordAudio up to its first await
recordAudio(call) ==
    IF ~browser.mediaDevices
    THEN RecordRejected(call, "Voice recording is not supported in this browser.")
    ELSE {[call EXCEPT !.pc = "gum", !.rec = "pending"]}

\* handleVoiceInput of the chat screen: the isRecording guard, then
\* useVoiceChat.startRecording up to its first await.  startRecording returns
\* the promise of its span without awaiting it, so its finally block runs
\* before the handler returns: setIsRecording(true) is followed by
\* setIsRecording(false) in the same task.
HandleVoiceInput ==
    /\ ~isRecording
    /\ \E c \in Calls :
         /\ calls[c].pc = "unused"
         /\ \A d \in Calls : d < c => calls[d].pc # "unused"
         /\ \E next \in recordAudio(NoCall) : calls' = [calls EXCEPT ![c] = next]
    /\ isRecording' = FALSE
    /\ UNCHANGED browser
    /\ UNCHANGED modalVars
    /\ UNCHANGED otherVars

Step(c, nexts) ==
    /\ \E next \in nexts : calls' = [calls EXCEPT ![c] = next]
    /\ UNCHANGED <<browser, isRecording>>
    /\ UNCHANGED modalVars
    /\ UNCHANGED otherVars

\* getUserMedia of recordAudio resolves or rejects
RecordGumGrant(c) ==
    /\ calls[c].pc = "gum"
    /\ Step(c, Streamed(calls[c]))

RecordGumDeny(c) ==
    /\ calls[c].pc = "gum"
    /\ Step(c, RecordRejected(calls[c], "Microphone access denied."))

\* mediaRecorder.ondataavailable: an empty chunk is not pushed
DataAvailable(c) ==
    /\ calls[c].pc = "recording"
    /\ calls[c].stream = "live"
    /\ \E size \in 0..(MaxBytes - calls[c].bytes) :
         Step(c, {IF size > 0
                  THEN [calls[c] EXCEPT !.bytes = @ + size, !.hasData = TRUE]
                  ELSE calls[c]})

\* recordingTimeout: mediaRecorder.stop() when the recorder is recording
RecordingTimeout(c) ==
    /\ calls[c].pc = "recording"
    /\ calls[c].recorder = "recording"
    /\ Step(c, {[calls[c] EXCEPT !.recorder = "inactive"]})

\* the stop event of the stopped recorder
RecorderStop(c) ==
    /\ calls[c].pc = "recording"
    /\ calls[c].recorder = "inactive"
    /\ calls[c].stream = "live"
    /\ Step(c, onstop(calls[c]))

\* the bytes of the blob arrive: onstop goes on after its await
BlobRead(c) ==
    /\ calls[c].pc = "recording"
    /\ calls[c].stream = "stopped"
    /\ Step(c, onstopRead(calls[c]))

\* mediaRecorder.onerror: the tracks are stopped, the promise is rejected
RecorderError(c) ==
    /\ calls[c].pc = "recording"
    /\ calls[c].recorder = "recording"
    /\ Step(c, RecordRejected([calls[c] EXCEPT !.stream = "stopped",
                                               !.recorder = "inactive"],
                              "MediaRecorder error"))

\* the answers of the edge function, and the text of a 200 answer
Statuses == {200, 400, 429, 503}
RemoteTexts == {<<>>, Spaced(<<W("hello"), W("there")>>)}

\* fetch rejects: no answer
FetchFails(c) ==
    /\ calls[c].pc = "fetch"
    /\ Step(c, PrimaryFailed(calls[c], "network"))

\* fetch resolves: !response.ok throws, otherwise the call resolves with
\* result.text || ''
FetchResponds(c) ==
    /\ calls[c].pc = "fetch"
    /\ \E status \in Statuses :
         IF status # 200
         THEN Step(c, PrimaryFailed(calls[c], ToString(status)))
         ELSE Step(c, {Resolved([calls[c] EXCEPT !.bytes = 0], "remote", t)
                       : t \in RemoteTexts})

\* the recognizer of the fallback: onstart, the recordingDuration timer,
\* onresult, onerror, and onend after a stop that heard nothing
FallbackStart(c) ==
    /\ calls[c].pc = "fallback" /\ calls[c].sess = "starting"
    /\ Step(c, {[calls[c] EXCEPT !.sess = "active"]})

FallbackTimeout(c) ==
    /\ calls[c].pc = "fallback" /\ calls[c].sess = "active"
    /\ Step(c, {[calls[c] EXCEPT !.sess = "stopping"]})

FallbackResult(c) ==
    /\ calls[c].pc = "fallback" /\ calls[c].sess \in {"active", "stopping"}
    /\ Step(c, {Resolved([calls[c] EXCEPT !.heard = t], "fallback", t)
                 : t \in RemoteTexts})

FallbackError(c) ==
    /\ calls[c].pc = "fallback" /\ calls[c].sess \in {"starting", "active", "stopping"}
    /\ Step(c, {Rejected(calls[c], FallbackMessage(code)) : code \in FallbackErrors})

FallbackEnd(c) ==
    /\ calls[c].pc = "fallback" /\ calls[c].sess = "stopping"
    /\ Step(c, {[calls[c] EXCEPT !.sess = "ended"]})

(***************************************************************************)
(* The elevenlabs-stt edge function, and speechToText as its client.       *)
(***************************************************************************)
MAX_AUDIO_SIZE == 2 * 1024 * 1024

\* a JSON value: its JavaScript type and its JSON text
Json(t, v) == [t |-> t, v |-> v]
Missing == Json("undefined", "")
Str(s) == Json("string", s)
Num(s) == Json("number", s)
Arr(s) == Json("array", s)

\* value || default
Falsy(j) ==
    \/ j.t \in {"undefined", "null"}
    \/ j.t = "string" /\ j.v = ""
    \/ j.t = "number" /\ j.v = "0"

\* the audio of an upload: no file field, a file of some size, a file whose
\* bytes cannot be read, or a text field under the name of the file
NoFile == [kind |-> "none", size |-> 0]
Files ==
    {NoFile, [kind |-> "unreadable", size |-> 1], [kind |-> "string", size |-> 0]}
    \cup {[kind |-> "file", size |-> n]
          : n \in {0, 1, MAX_AUDIO_SIZE, MAX_AUDIO_SIZE + 1}}

\* the audio member of a JSON body: absent, the empty string, or text of
\* `length` characters of which `ws` are white space and `pad` are '=',
\* all of the base64 alphabet or not, alone or wrapped in a one-element array
NoAudio ==
    [kind |-> "missing", length |-> 0, ws |-> 0, pad |-> 0, alphabet |-> TRUE,
     wrapped |-> FALSE]
Base64(length, ws, pad, alphabet, wrapped) ==
    [kind |-> "base64", length |-> length, ws |-> ws, pad |-> pad,
     alphabet |-> alphabet, wrapped |-> wrapped]
Audios ==
    {NoAudio, [NoAudio EXCEPT !.kind = "empty"],
     Base64(4, 4, 0, TRUE, FALSE),
     Base64(4, 0, 0, TRUE, FALSE),
     Base64(4, 0, 2, TRUE, FALSE),
     Base64(5, 0, 0, TRUE, FALSE),
     Base64(4, 0, 0, FALSE, FALSE),
     Base64(4, 0, 0, TRUE, TRUE),
     Base64(2796200, 0, 0, TRUE, FALSE),
     Base64(2796204, 0, 1, TRUE, FALSE),
     Base64(2796208, 0, 0, TRUE, FALSE),
     Base64(2796208, 0, 0, TRUE, TRUE)}

\* btoa of n bytes
btoa(n) == Base64(4 * ((n + 2) \div 3), 0, (3 - (n % 3)) % 3, TRUE, FALSE)

\* atob: the number of bytes decoded, or <<>> when it throws
atob(a) ==
    LET stripped == a.length - a.ws
        data == stripped - a.pad
    IN  IF \/ ~a.alphabet
           \/ a.pad > 2
           \/ a.pad > 0 /\ stripped % 4 # 0
           \/ data % 4 = 1
        THEN <<>>
        ELSE <<(data * 3) \div 4>>

NoRequest ==
    [method |-> "none", contentType |-> "none", file |-> NoFile,
     body |-> "none", audio |-> NoAudio, language |-> <<>>]
Languages == {<<>>, <<"es">>}
Requests ==
    {[NoRequest EXCEPT !.method = "OPTIONS"]}
    \cup {[NoRequest EXCEPT !.method = "POST", !.contentType = "multipart",
                            !.file = f, !.language = l]
          : f \in Files, l \in Languages}
    \cup {[NoRequest EXCEPT !.method = "POST", !.contentType = "json",
                            !.body = b]
          : b \in {"invalid", "null"}}
    \cup {[NoRequest EXCEPT !.method = "POST", !.contentType = "json",
                            !.body = "object", !.audio = a, !.language = l]
          : a \in Audios, l \in Languages}

\* the JSON body of speechToText for a recording of n bytes
ClientRequest(n, options) ==
    [NoRequest EXCEPT !.method = "POST", !.contentType = "json",
                      !.body = "object", !.audio = btoa(n),
                      !.language = IF options = <<>> THEN <<"en">> ELSE options]
ClientSizes == {1, 2, 3}

\* what the provider answers with
NoProvider ==
    [kind |-> "none", text |-> Missing, segments |-> Missing,
     language |-> Missing, duration |-> Missing]
Providers ==
    {[NoProvider EXCEPT !.kind = "unparsable"], [NoProvider EXCEPT !.kind = "null"]}
    \cup {[kind |-> "object", text |-> t, segments |-> s, language |-> l,
           duration |-> d]
          : t \in {Missing, Str("hello"), Str(""), Num("5")},
            s \in {Missing, Arr("[seg]"), Str("seg")},
            l \in {Missing, Str("fr"), Num("1")},
            d \in {Missing, Num("3"), Str("3")}}
UpstreamStatuses == {200, 201, 304, 400, 401, 404, 429, 500, 502}

NoResult ==
    [state |-> "none", text |-> Missing, language |-> Missing,
     duration |-> Missing, segments |-> Missing]
ErrorBody(error) ==
    [error |-> error, text |-> Missing, segments |-> Missing,
     language |-> Missing, duration |-> Missing]
NoEdge ==
    [pc |-> "idle", apiKey |-> TRUE, viaClient |-> FALSE, options |-> <<>>,
     req |-> NoRequest, length |-> 0, language |-> "en", upstreamCalls |-> 0,
     upstreamStatus |-> 0, upstreamError |-> "none", provider |-> NoProvider,
     status |-> 0, body |-> ErrorBody(""), client |-> NoResult]

\* return new Response(JSON.stringify({ error }), { status })
Answer(e, status, error) ==
    [e EXCEPT !.pc = "responded", !.status = status, !.body = ErrorBody(error)]

\* the outer catch
Internal(e) ==
    Answer(e, 500, "Internal server error occurred while processing audio")

\* the statuses the Response constructor refuses together with a body
NullBodyStatus == {101, 204, 205, 304}

\* the response that repeats the upstream status: the constructor throws
\* inside the outer try for a null-body status or one outside 200..599
PassThrough(e, status) ==
    IF status \in NullBodyStatus \/ status \notin 200..599
    THEN Internal(e)
    ELSE Answer(e, status, "Failed to transcribe speech")

TooLarge(e, what) ==
    Answer(e, 400, what \o " too large. Maximum size is 2MB")

\* the final size validation, the API key, and the upstream fetch
Forward(e, byteLength, language) ==
    IF byteLength = 0 THEN Answer(e, 400, "Audio data is empty")
    ELSE IF byteLength > MAX_AUDIO_SIZE THEN TooLarge(e, "Audio data")
    ELSE IF ~e.apiKey THEN Answer(e, 500, "ElevenLabs API key not configured")
    ELSE [e EXCEPT !.pc = "upstream", !.length = byteLength,
                   !.language = language,
                   !.upstreamCalls = e.upstreamCalls + 1]

\* langParam / reqLang over the default 'en'
Language(req) == IF req.language = <<>> THEN "en" ELSE req.language[1]

Multipart(e, req) ==
    IF req.file.kind = "none" THEN Answer(e, 400, "Audio file is required")
    ELSE IF req.file.kind = "file" /\ req.file.size > MAX_AUDIO_SIZE
    THEN TooLarge(e, "Audio file")
    ELSE IF req.file.kind \in {"unreadable", "string"}
    THEN Answer(e, 400, "Failed to read audio file")
    ELSE Forward(e, req.file.size, Language(req))

JsonBody(e, req) ==
    IF req.body = "invalid" THEN Answer(e, 400, "Invalid JSON in request body")
    ELSE IF req.body = "null" THEN Internal(e)
    ELSE IF req.audio.kind \in {"missing", "empty"}
    THEN Answer(e, 400, "Audio data is required")
    ELSE IF (IF req.audio.wrapped THEN 1 ELSE req.audio.length) * 3
             > MAX_AUDIO_SIZE * 4
    THEN TooLarge(e, "Audio data")
    ELSE IF atob(req.audio) = <<>>
    THEN Answer(e, 400, "Invalid base64 audio data")
    ELSE IF atob(req.audio)[1] > MAX_AUDIO_SIZE THEN TooLarge(e, "Audio data")
    ELSE Forward(e, atob(req.audio)[1], Language(req))

\* the handler from the request to its first await of the provider
serve(e, req) ==
    IF req.method = "OPTIONS"
    THEN [e EXCEPT !.pc = "responded", !.req = req, !.status = 200,
                   !.body = ErrorBody("")]
    ELSE IF req.contentType = "multipart"
    THEN Multipart([e EXCEPT !.req = req], req)
    ELSE JsonBody([e EXCEPT !.req = req], req)

\* a handler that answers with the fields as the provider sent them
Unshaped(p, language) ==
    [error |-> "", text |-> p.text, segments |-> p.segments,
     language |-> p.language, duration |-> p.duration]

\* the result the handler builds from the parsed answer of the provider
Shaped(p, language) ==
    [error |-> "",
     text |-> IF p.text.t = "string" THEN p.text ELSE Str(""),
     segments |-> IF p.segments.t = "array" THEN p.segments ELSE Arr("[]"),
     language |-> IF p.language.t = "string" THEN p.language ELSE Str(language),
     duration |-> IF p.duration.t = "number" THEN p.duration ELSE Num("0")]

\* the handler after the fetch resolved
Answered(e, status, p) ==
    IF status \notin 200..299
    THEN IF status = 401 THEN Answer(e, 401, "Invalid API key")
         ELSE IF status = 429
         THEN Answer(e, 429, "Rate limit exceeded. Please try again later.")
         ELSE IF status >= 500
         THEN Answer(e, 503, "Speech service temporarily unavailable")
         ELSE PassThrough(e, status)
    ELSE IF p.kind = "unparsable"
    THEN Answer(e, 502, "Invalid response from speech service")
    ELSE IF p.kind = "null" THEN Internal(e)
    ELSE [e EXCEPT !.pc = "responded", !.status = 200,
                   !.body = Shaped(p, e.language)]

\* the handler after the fetch rejected
Failed(e, name) ==
    IF name = "AbortError"
    THEN Answer(e, 408, "Request timeout - audio processing took too long")
    ELSE Answer(e, 503, "Network error connecting to speech service")

\* speechToText on the response of the edge function
Read(e) ==
    IF e.status \notin 200..299
    THEN [e EXCEPT !.pc = "read", !.client = [NoResult EXCEPT !.state = "failed"]]
    ELSE [e EXCEPT !.pc = "read", !.client =
            [state |-> "result",
             text |-> IF Falsy(e.body.text) THEN Str("") ELSE e.body.text,
             language |-> Str(IF e.options = <<>> THEN "en" ELSE e.options[1]),
             duration |-> IF Falsy(e.body.duration) THEN Num("0")
                          ELSE e.body.duration,
             segments |-> e.body.segments]]

EdgeStep(next) ==
    /\ edge' = next
    /\ UNCHANGED <<modalVars, browser, serviceVars, extract, speech, chat>>

Request ==
    /\ edge.pc = "idle"
    /\ \E req \in Requests : EdgeStep(serve(edge, req))

ClientSends ==
    /\ edge.pc = "idle"
    /\ \E n \in ClientSizes, options \in Languages :
         EdgeStep(serve([edge EXCEPT !.viaClient = TRUE, !.options = options],
                        ClientRequest(n, options)))

UpstreamAnswers ==
    /\ edge.pc = "upstream"
    /\ \E status \in UpstreamStatuses :
         \E p \in IF status \in 200..299 THEN Providers
                  ELSE {[NoProvider EXCEPT !.kind = "unparsable"]} :
            EdgeStep(Answered([edge EXCEPT !.upstreamStatus = status,
                                           !.provider = p], status, p))

UpstreamFails ==
    /\ edge.pc = "upstream"
    /\ \E name \in {"AbortError", "TypeError"} :
         EdgeStep(Failed([edge EXCEPT !.upstreamError = name], name))

ClientReads ==
    /\ edge.pc = "responded" /\ edge.viaClient
    /\ EdgeStep(Read(edge))

EdgeOff == edge = Off

(***************************************************************************)
(* parseVoiceTranscriptForMetrics on its own: the transcripts it is given  *)
(* are up to MaxPhrases phrases, one after the other.                      *)
(***************************************************************************)
Phrases ==
    { Spaced(<<W("blood"), W("pressure"), N(<<1, 2, 0>>), W("over"), N(<<8, 0>>)>>),
      Spaced(<<N(<<1, 7, 2>>), W("Over"), N(<<9, 5>>)>>),
      Spaced(<<W("heart"), W("rate"), N(<<7, 2>>)>>),
      Spaced(<<W("pulse"), N(<<8, 0>>)>>),
      Spaced(<<W("pulse"), W("is"), N(<<2, 0>>)>>),
      Spaced(<<N(<<1, 2, 0>>), W("bpm")>>),
      Spaced(<<W("weight"), N(<<1, 5, 0>>)>>),
      Spaced(<<N(<<8, 0>>), W("kg")>>),
      Spaced(<<W("sugar"), N(<<1, 2, 0>>)>>),
      Spaced(<<W("glucose"), N(<<1, 5, 0>>)>>),
      Spaced(<<W("temperature"), NF(<<9, 8>>, <<6>>)>>),
      Spaced(<<W("temp"), N(<<8, 0>>)>>),
      Spaced(<<W("hello"), W("there")>>) }

RECURSIVE Utterances(_)
Utterances(n) ==
    IF n = 0 THEN {<<>>}
    ELSE Utterances(n - 1)
         \cup {IF u = <<>> THEN p ELSE u \o <<WS>> \o p
               : u \in Utterances(n - 1), p \in Phrases}

NoExtract == [pc |-> "idle", transcript |-> <<>>, metrics |-> NoMetrics]

\* one call: the metrics returned for the transcript
Extract ==
    /\ extract.pc = "called"
    /\ extract' = [extract EXCEPT !.pc = "returned",
                       !.metrics = parseVoiceTranscriptForMetrics(extract.transcript)]
    /\ UNCHANGED <<modalVars, browser, serviceVars, edge, speech, chat>>

ExtractOff == extract = Off

(***************************************************************************)
(* The speaker control of the chat screen: handleTextToSpeech,             *)
(* useVoiceChat.speakText and ElevenLabsService.textToSpeech.              *)
(***************************************************************************)
Speaks == 1..MaxSpeaks

\* one textToSpeech call.  pc: unused, fetch (the elevenlabs-tts request is
\* out), playing (playAudio), resolved, rejected
NoSpeak == [pc |-> "unused", messageId |-> "", error |-> ""]

\* the assistant messages on the screen, each with a speaker control
MessageIds == {"welcome", "reply"}

\* isPlaying, isProcessing and error of useVoiceChat, the latest Alert of
\* handleTextToSpeech, and the calls
NoSpeech == [isPlaying |-> FALSE, isProcessing |-> FALSE, error |-> "",
             alert |-> "none", speaks |-> [s \in Speaks |-> NoSpeak]]

\* what the elevenlabs-tts function answers with
TtsStatuses == {200, 401, 429, 500}

TtsFailed(status) == "TTS failed with status " \o ToString(status)

\* the errors fallbackTextToSpeech rejects with
FallbackTtsErrors ==
    {"Text-to-speech is not supported in this browser.",
     "Text-to-speech failed. Please try again."}

\* textToSpeech up to the first await of its span callback: the request is out
textToSpeech(speak, messageId) ==
    [speak EXCEPT !.pc = "fetch", !.messageId = messageId]

\* an error in the span callback of textToSpeech after that await.  The try
\* block has returned the promise of Sentry.startSpan without awaiting it, so
\* the catch clause, and fallbackTextToSpeech in it, is behind: the promise
\* of textToSpeech rejects with the error of the callback
TtsRejected(speak, message) ==
    [speak EXCEPT !.pc = "rejected", !.error = message]

TtsResolved(speak) == [speak EXCEPT !.pc = "resolved"]

\* speakText: the span callback up to `await elevenLabs.textToSpeech`, then
\* the finally block, which runs as soon as the try block has returned the
\* promise of the span
speakText(sp, s, messageId) ==
    [sp EXCEPT !.isProcessing = FALSE, !.error = "", !.isPlaying = TRUE,
               !.speaks[s] = textToSpeech(@, messageId)]

\* the promise of textToSpeech settles.  Resolved: the span callback of
\* speakText goes on with setIsPlaying(false).  Rejected: the callback
\* rejects at its await; the catch of speakText (setError, setIsPlaying(false))
\* guards a try block that has returned already, and the rejection reaches
\* the catch handler of handleTextToSpeech, which alerts
SpeakSettled(sp, s, next) ==
    [sp EXCEPT !.speaks[s] = next,
               !.isPlaying = IF next.pc = "resolved" THEN FALSE ELSE @,
               !.alert = IF next.pc = "rejected" THEN "Speech Error" ELSE @]

SpeechStep(next) ==
    /\ speech' = next
    /\ UNCHANGED <<modalVars, browser, serviceVars, edge, extract, chat>>

\* a tap on the speaker control of a message
HandleTextToSpeech ==
    \E s \in Speaks, messageId \in MessageIds :
        /\ speech.speaks[s].pc = "unused"
        /\ \A d \in Speaks : d < s => speech.speaks[d].pc # "unused"
        /\ SpeechStep(IF speech.isPlaying
                      THEN [speech EXCEPT !.alert = "Audio Playing"]
                      ELSE [speakText(speech, s, messageId)
                               EXCEPT !.alert = "none"])

\* the fetch of textToSpeech rejects
TtsFetchFails(s) ==
    /\ speech.speaks[s].pc = "fetch"
    /\ SpeechStep(SpeakSettled(speech, s,
                      TtsRejected(speech.speaks[s], "Failed to fetch")))

\* the fetch of textToSpeech is answered
TtsFetchResponds(s) ==
    /\ speech.speaks[s].pc = "fetch"
    /\ \E status \in TtsStatuses :
         SpeechStep(IF status = 200
                    THEN [speech EXCEPT !.speaks[s].pc = "playing"]
                    ELSE SpeakSettled(speech, s,
                             TtsRejected(speech.speaks[s], TtsFailed(status))))

\* playAudio: the audio element ends
AudioEnded(s) ==
    /\ speech.speaks[s].pc = "playing"
    /\ SpeechStep(SpeakSettled(speech, s, TtsResolved(speech.speaks[s])))

\* playAudio: the audio element fails, or play() is refused
AudioError(s) ==
    /\ speech.speaks[s].pc = "playing"
    /\ SpeechStep(SpeakSettled(speech, s,
                      TtsRejected(speech.speaks[s], "audio error")))

SpeechIdle == speech = NoSpeech
SpeechOff == speech = Off

(***************************************************************************)
(* The chat screen: sendMessage, handleVoiceInput and the daily count of   *)
(* messages.                                                               *)
(***************************************************************************)
MAX_FREE_MESSAGES == 3

Sends == 1..MaxSends

\* one message on its way.  dailyMessageCount is the value of the render
\* whose sendMessage is called: a render's functions keep its state values.
\* pc: unused, recording (startRecording is pending), adding (addMessage is
\* awaited: first the insert of the message, then, with inserted true, the
\* update of the conversation), replying (the reply of the assistant is
\* awaited), done, refused (the daily limit), failed
NoSend ==
    [pc |-> "unused", isVoice |-> FALSE, dailyMessageCount |-> 0,
     inserted |-> FALSE]

\* localStorage holds strings, here the decimal digits of a count; no item
\* is the empty sequence
NoItem == <<>>

\* count.toString()
RECURSIVE toString(_)
toString(count) ==
    IF count < 10 THEN <<count>>
    ELSE toString(count \div 10) \o <<count % 10>>

\* parseInt(storedCount, 10) of a string of decimal digits
RECURSIVE parseInt(_)
parseInt(storedCount) ==
    IF Len(storedCount) = 1 THEN storedCount[1]
    ELSE 10 * parseInt(SubSeq(storedCount, 1, Len(storedCount) - 1))
         + storedCount[Len(storedCount)]

\* what an earlier visit of the day left in messageCount_<today>: nothing,
\* or a count that updateDailyMessageCount wrote
StoredCounts == {NoItem} \cup {toString(count) : count \in 1..MAX_FREE_MESSAGES}

\* unlimitedAIConversations, dailyMessageCount and isProcessing of the
\* screen, the item messageCount_<today> of localStorage, the user messages
\* addMessage has stored, and the sends
NoChat ==
    [unlimited |-> FALSE, dailyMessageCount |-> 0, stored |-> NoItem,
     isProcessing |-> FALSE, accepted |-> 0,
     sends |-> [s \in Sends |-> NoSend]]

\* the effect that runs once after mounting: the count of the day is loaded
Mounted(unlimited, storedCount) ==
    [NoChat EXCEPT !.unlimited = unlimited,
                   !.stored = storedCount,
                   !.dailyMessageCount =
                       IF storedCount # NoItem THEN parseInt(storedCount) ELSE 0]

\* the count that localStorage holds for the day
StoredCount(c) == IF c.stored = NoItem THEN 0 ELSE parseInt(c.stored)

\* the functions of the current render, bound to send s
Rendered(c, s, isVoice) ==
    [c EXCEPT !.sends[s].isVoice = isVoice,
              !.sends[s].dailyMessageCount = c.dailyMessageCount]

LimitReached(c, s) ==
    ~c.unlimited /\ c.sends[s].dailyMessageCount >= MAX_FREE_MESSAGES

\* sendMessage up to `await addMessage(...)`, for a text that is not blank
\* and with a current conversation
sendMessage(c, s) ==
    IF LimitReached(c, s)
    THEN [c EXCEPT !.sends[s].pc = "refused"]
    ELSE [c EXCEPT !.isProcessing = TRUE, !.sends[s].pc = "adding"]

\* handleVoiceInput up to startRecording(); isRecording is false whenever
\* the control can be tapped
handleVoiceInput(c, s) ==
    IF LimitReached(c, s)
    THEN [c EXCEPT !.sends[s].pc = "refused"]
    ELSE [c EXCEPT !.sends[s].pc = "recording"]

updateDailyMessageCount(c, count) ==
    [c EXCEPT !.dailyMessageCount = count, !.stored = toString(count)]

ChatStep(next) ==
    /\ chat' = next
    /\ UNCHANGED <<modalVars, browser, serviceVars, edge, extract, speech>>

FreshSend(s) ==
    /\ chat.sends[s].pc = "unused"
    /\ \A d \in Sends : d < s => chat.sends[d].pc # "unused"

\* a tap on the send control, which is disabled while isProcessing
SendTyped ==
    /\ ~chat.isProcessing
    /\ \E s \in Sends :
         /\ FreshSend(s)
         /\ ChatStep(sendMessage(Rendered(chat, s, FALSE), s))

\* a tap on the voice control, which is disabled while isProcessing
VoiceInput ==
    /\ ~chat.isProcessing
    /\ \E s \in Sends :
         /\ FreshSend(s)
         /\ ChatStep(handleVoiceInput(Rendered(chat, s, TRUE), s))

\* startRecording resolves: with text, sendMessage of the render of the tap;
\* without, an Alert
VoiceTranscribed(s) ==
    /\ chat.sends[s].pc = "recording"
    /\ \E text \in BOOLEAN :
         ChatStep(IF text THEN sendMessage(chat, s)
                  ELSE [chat EXCEPT !.sends[s].pc = "failed"])

\* startRecording rejects
VoiceFailed(s) ==
    /\ chat.sends[s].pc = "recording"
    /\ ChatStep([chat EXCEPT !.sends[s].pc = "failed"])

\* addMessage: the insert of the user message is answered.  With an error
\* addMessage returns it and sendMessage gives up; with the row the message
\* is stored and shown, and addMessage awaits the update of the conversation
InsertAnswered(s) ==
    /\ chat.sends[s].pc = "adding"
    /\ ~chat.sends[s].inserted
    /\ \E error \in BOOLEAN :
         ChatStep(IF error
                  THEN [chat EXCEPT !.isProcessing = FALSE,
                                    !.sends[s].pc = "failed"]
                  ELSE [chat EXCEPT !.accepted = @ + 1,
                                    !.sends[s].inserted = TRUE])

\* the update of the conversation is answered and addMessage returns the
\* row; then newCount = dailyMessageCount + 1 of the same render
AddMessageReturns(s) ==
    /\ chat.sends[s].pc = "adding"
    /\ chat.sends[s].inserted
    /\ ChatStep(updateDailyMessageCount(
                    [chat EXCEPT !.sends[s].pc = "replying"],
                    chat.sends[s].dailyMessageCount + 1))

\* the delay and the addMessage of the reply are over: finally
AiResponds(s) ==
    /\ chat.sends[s].pc = "replying"
    /\ ChatStep([chat EXCEPT !.isProcessing = FALSE, !.sends[s].pc = "done"])

ChatOff == chat = Off

OtherOff == EdgeOff /\ ExtractOff /\ SpeechOff /\ ChatOff

ServiceIdle ==
    /\ calls = [c \in Calls |-> NoCall]
    /\ isRecording = FALSE

ServiceOff ==
    /\ calls = Off
    /\ isRecording = FALSE

ModalOff ==
    /\ isPremium = TRUE
    /\ visible = FALSE
    /\ showAddModal = FALSE
    /\ metricValues = Off
    /\ submitting = FALSE
    /\ voiceState = "idle"
    /\ errorMessage = Off
    /\ flows = Off
    /\ lastPress = "none"

InitService ==
    /\ browser \in [mediaDevices : BOOLEAN, speechRecognition : BOOLEAN,
                    mediaRecorder : BOOLEAN]
    /\ ModalOff
    /\ ServiceIdle
    /\ OtherOff

NextService ==
    \/ HandleVoiceInput
    \/ \E c \in Calls :
        \/ RecordGumGrant(c)
        \/ RecordGumDeny(c)
        \/ DataAvailable(c)
        \/ RecordingTimeout(c)
        \/ RecorderStop(c)
        \/ BlobRead(c)
        \/ RecorderError(c)
        \/ FetchFails(c)
        \/ FetchResponds(c)
        \/ FallbackStart(c)
        \/ FallbackTimeout(c)
        \/ FallbackResult(c)
        \/ FallbackError(c)
        \/ FallbackEnd(c)

SpecService == InitService /\ [][NextService]_vars

\* timers fire, the recorder reports its stop, the fetch is answered and the
\* events of the recognizer arrive; nothing obliges the user to start a call
FairnessService ==
    \A c \in Calls :
        /\ WF_vars(RecordGumGrant(c) \/ RecordGumDeny(c))
        /\ WF_vars(RecordingTimeout(c))
        /\ WF_vars(RecorderStop(c) \/ RecorderError(c))
        /\ WF_vars(BlobRead(c))
        /\ WF_vars(FetchFails(c) \/ FetchResponds(c))
        /\ WF_vars(FallbackStart(c))
        /\ WF_vars(FallbackTimeout(c))
        /\ WF_vars(FallbackResult(c) \/ FallbackError(c) \/ FallbackEnd(c))

SpecServiceFair == SpecService /\ FairnessService

InitEdge ==
    /\ browser = [mediaDevices |-> TRUE, speechRecognition |-> TRUE,
                  mediaRecorder |-> TRUE]
    /\ ModalOff
    /\ ServiceOff
    /\ edge \in {[NoEdge EXCEPT !.apiKey = k] : k \in BOOLEAN}
    /\ ExtractOff
    /\ SpeechOff
    /\ ChatOff

NextEdge ==
    \/ Request
    \/ ClientSends
    \/ UpstreamAnswers
    \/ UpstreamFails
    \/ ClientReads

SpecEdge == InitEdge /\ [][NextEdge]_vars

InitParser ==
    /\ browser = [mediaDevices |-> TRUE, speechRecognition |-> TRUE,
                  mediaRecorder |-> TRUE]
    /\ ModalOff
    /\ ServiceOff
    /\ EdgeOff
    /\ SpeechOff
    /\ ChatOff
    /\ extract \in {[NoExtract EXCEPT !.pc = "called", !.transcript = t]
                    : t \in Utterances(MaxPhrases)}

NextParser == Extract

SpecParser == InitParser /\ [][NextParser]_vars

InitSpeech ==
    /\ browser = [mediaDevices |-> TRUE, speechRecognition |-> TRUE,
                  mediaRecorder |-> TRUE]
    /\ ModalOff
    /\ ServiceOff
    /\ EdgeOff
    /\ ExtractOff
    /\ SpeechIdle
    /\ ChatOff

NextSpeech ==
    \/ HandleTextToSpeech
    \/ \E s \in Speaks :
        \/ TtsFetchFails(s)
        \/ TtsFetchResponds(s)
        \/ AudioEnded(s)
        \/ AudioError(s)

SpecSpeech == InitSpeech /\ [][NextSpeech]_vars

InitChat ==
    /\ browser = [mediaDevices |-> TRUE, speechRecognition |-> TRUE,
                  mediaRecorder |-> TRUE]
    /\ ModalOff
    /\ ServiceOff
    /\ EdgeOff
    /\ ExtractOff
    /\ SpeechOff
    /\ chat \in {Mounted(unlimited, storedCount) :
                     unlimited \in BOOLEAN, storedCount \in StoredCounts}

NextChat ==
    \/ SendTyped
    \/ VoiceInput
    \/ \E s \in Sends :
        \/ VoiceTranscribed(s)
        \/ VoiceFailed(s)
        \/ InsertAnswered(s)
        \/ AddMessageReturns(s)
        \/ AiResponds(s)

SpecChat == InitChat /\ [][NextChat]_vars

Init ==
    /\ isPremium \in BOOLEAN
    /\ browser \in [mediaDevices : BOOLEAN, speechRecognition : BOOLEAN,
                    mediaRecorder : {TRUE}]
    /\ visible = FALSE
    /\ showAddModal = FALSE
    /\ metricValues = NoMetrics
    /\ submitting = FALSE
    /\ voiceState = "idle"
    /\ errorMessage = NoMessage
    /\ flows = [f \in Flows |-> NoFlow]
    /\ lastPress = "none"
    /\ ServiceOff
    /\ OtherOff

\* what the environment does: timers, permission answers, recognizer events
Delivered ==
    \E f \in Flows :
        \/ GumGrant(f)
        \/ GumDeny(f)
        \/ RecognitionStart(f)
        \/ RecognitionTimeout(f)
        \/ RecognitionResult(f)
        \/ RecognitionError(f)
        \/ RecognitionEnd(f)
        \/ ErrorResetTimer(f)
        \/ SuccessTimer(f)
        \/ ParsedTimer(f)

Next ==
    \/ OpenModal
    \/ CloseModal
    \/ MicPress
    \/ AddReading
    \/ handleCloseAddModal
    \/ updateMetricValue
    \/ handleAddMetric
    \/ AddMetricReturns
    \/ Delivered

Spec == Init /\ [][Next]_vars

\* timers fire, permission prompts are answered and recognizer events arrive;
\* nothing obliges the user to tap, open or close anything
Fairness ==
    \A f \in Flows :
        /\ WF_vars(GumGrant(f) \/ GumDeny(f))
        /\ WF_vars(RecognitionStart(f))
        /\ WF_vars(RecognitionTimeout(f))
        /\ WF_vars(RecognitionResult(f) \/ RecognitionError(f) \/ RecognitionEnd(f))
        /\ WF_vars(ErrorResetTimer(f))
        /\ WF_vars(SuccessTimer(f))
        /\ WF_vars(ParsedTimer(f))

SpecFair == Spec /\ Fairness

(***************************************************************************)
(* Claims about VoiceEntryModal.                                           *)
(***************************************************************************)

\* C1: for a user whose voiceEntryForHealthMetrics flag is false the modal
\* stays idle and no handleMicPress invocation ever gets past the guards, so
\* getUserMedia is never called and no recognition session is started.
C1_NonPremiumNeverStarts ==
    ~isPremium =>
        /\ voiceState = "idle"
        /\ \A f \in Flows : flows[f].pc = "unused" /\ flows[f].sess = "none"

\* a non-premium user has tapped the mic control
C1_Witness == ~isPremium /\ visible /\ lastPress \in {"disabled", "premium"}

\* C2: at most one flow is between its start and its success or error outcome,
\* in the runs in which the modal was not closed over a flow.
C2_OneFlowInFlight ==
    (\A f \in Flows : ~flows[f].cancelled)
        => Cardinality({f \in Flows : InFlight(f)}) <= 1

\* C3: whenever the state machine has left idle it returns to idle.
C3_ReturnsToIdle == (voiceState # "idle") ~> (voiceState = "idle")

\* C4: onVoiceDataParsed is called only by a successful flow, after its 1000 ms
\* timer has fired and called onClose, and once when the flow is over; a flow
\* that ended in error never calls it.
C4_ParsedOnceAfterClose ==
    \A f \in Flows :
        /\ flows[f].outcome = "error" => flows[f].parsedCalls = 0 /\ flows[f].closeCalls = 0
        /\ flows[f].outcome = "success" =>
              /\ Keys(flows[f].metrics) # {}
              /\ flows[f].pc \in {"succTimer", "parsedTimer", "done"}
              /\ flows[f].pc = "succTimer" =>
                    flows[f].closeCalls = 0 /\ flows[f].parsedCalls = 0
              /\ flows[f].pc = "parsedTimer" =>
                    flows[f].closeCalls = 1 /\ flows[f].parsedCalls = 0
              /\ flows[f].pc = "done" =>
                    flows[f].closeCalls = 1 /\ flows[f].parsedCalls = 1
        /\ flows[f].outcome = "none" => flows[f].parsedCalls = 0

\* a successful flow is over and has handed its metrics to the health screen
C4_Witness ==
    \E f \in Flows :
        /\ flows[f].pc = "done" /\ flows[f].outcome = "success"
        /\ flows[f].parsedCalls = 1
        /\ metricValues.heart_rate = <<7, 2>>

\* C5: a flow over which the modal was closed never calls onVoiceDataParsed.
C5_CancelledResultDiscarded ==
    \A f \in Flows : flows[f].cancelled => flows[f].parsedCalls = 0

\* C6: a flow over which the modal was closed has no live recognition session.
C6_CloseAbortsSession ==
    \A f \in Flows : flows[f].cancelled => ~SessionLive(f)

(***************************************************************************)
(* Claims about ElevenLabsService.                                         *)
(***************************************************************************)

\* C7: once a recordAudio call that obtained a stream has settled, the tracks
\* of that stream are stopped.
C7_TracksStoppedWhenSettled ==
    \A c \in Calls :
        calls[c].rec \in {"resolved", "rejected"} /\ calls[c].stream # "none"
            => calls[c].stream = "stopped"

\* C8: recordAudio does not resolve with an empty buffer, so the length check
\* of speechToText never fires on a resolved recording, and the audio of a
\* request to the edge function is not empty.
C8_EmptyRecordingRejected ==
    \A c \in Calls :
        calls[c].rec = "resolved" =>
            /\ calls[c].primaryError # "No audio data recorded."
            /\ calls[c].pc = "fetch" => calls[c].bytes > 0

\* a recorder stopped without a non-empty chunk and recordAudio rejected
C8_Witness ==
    \E c \in Calls :
        /\ calls[c].rec = "rejected"
        /\ calls[c].recorder = "inactive"
        /\ calls[c].primaryError = "No audio data was recorded."

\* C9: no two recordAudio calls that have not settled hold live streams at
\* the same time.
C9_OneLiveStream ==
    Cardinality({c \in Calls : calls[c].rec = "pending" /\ calls[c].stream = "live"}) <= 1

\* C10: after the request failed with a network error, 429 or 5xx in a browser
\* that has the recognizer, the call is with the recognizer of the fallback,
\* or has resolved with what the recognizer heard, or has rejected with an
\* error of the fallback.
C10_FallbackAfterPrimaryFailure ==
    \A c \in Calls :
        calls[c].primaryError \in {"network", ToString(429), ToString(503)}
            /\ browser.speechRecognition =>
            \/ /\ calls[c].pc = "fallback"
               /\ calls[c].sess \in {"starting", "active", "stopping", "ended"}
            \/ /\ calls[c].pc = "resolved"
               /\ calls[c].via = "fallback"
               /\ calls[c].text = calls[c].heard
            \/ /\ calls[c].pc = "rejected"
               /\ calls[c].error \in
                     {FallbackMessage(code) : code \in FallbackErrors}
                     \cup {"Failed to start speech recognition. Please try again."}

\* a call answered 429 has resolved with the words the recognizer heard
C10_Witness ==
    \E c \in Calls :
        /\ calls[c].primaryError = ToString(429)
        /\ calls[c].pc = "resolved" /\ calls[c].via = "fallback"
        /\ calls[c].text = Spaced(<<W("hello"), W("there")>>)

\* C14: the step in which the transcript of a flow arrives leads to success
\* if and only if the trimmed transcript is not empty and at least one metric
\* was extracted from it; an empty or whitespace-only transcript leads to error
\* with the no-speech message, and a non-empty transcript without metrics leads
\* to error with the message that quotes the transcript.
C14_TranscriptOutcome ==
    [][\A f \in Flows :
        (flows[f].pc = "recog" /\ flows'[f].transcript # <<>>) =>
            \A t \in {flows'[f].transcript[1]} :
            \A parsed \in {Parsed(t)} :
            \A spoken \in {trim(t) # <<>>}, found \in {Keys(parsed) # {}} :
                /\ voiceState' \in {"success", "error"}
                /\ voiceState' = "success" <=> (spoken /\ found)
                /\ (spoken /\ found) => flows'[f].metrics = parsed
                /\ ~spoken => errorMessage' = NoSpeechMsg
                /\ (spoken /\ ~found) =>
                      /\ errorMessage' = HeardMsg(t)
                      /\ errorMessage'.heard = t]_vars

\* a flow heard words without a metric and shows them in its error message,
\* and another heard white space only
C14_Witness ==
    /\ voiceState = "error"
    /\ \E f \in Flows :
         /\ flows[f].pc = "errTimer"
         /\ flows[f].transcript = <<Spaced(<<W("hello"), W("there")>>)>>
         /\ errorMessage = HeardMsg(flows[f].transcript[1])

\* C17: a mic press while voiceState is recording, processing or success is a
\* no-op: it starts no microphone request and no recognition session (the
\* flows are as before) and leaves voiceState and errorMessage unchanged.
C17_PressWhileBusyIsNoOp ==
    [][(lastPress' # "none" /\ voiceState \in {"recording", "processing", "success"})
        => /\ lastPress' \in {"blocked", "disabled"}
           /\ voiceState' = voiceState
           /\ errorMessage' = errorMessage
           /\ flows' = flows]_vars

\* the mic was pressed while a flow was waiting for the microphone
C17_Witness ==
    /\ lastPress = "blocked"
    /\ voiceState = "recording"
    /\ \E f \in Flows : flows[f].pc = "gum"

\* C18: the steps of a call are strictly ordered: the transcription request
\* (the fetch of the edge function or the start of the recognizer) begins only
\* after every track of the capture stream was stopped, and a text is there
\* only after the transcription resolved.
C18_CaptureBeforeTranscription ==
    \A c \in Calls :
        /\ (calls[c].pc \in {"fetch", "fallback"} /\ calls[c].stream # "none")
               => calls[c].stream = "stopped"
        /\ calls[c].text # <<>> => calls[c].via \in {"remote", "fallback"}

\* C19: every failure raised during a flow (unsupported browser, permission
\* denied, no device, recognizer error, failure to start) is caught by
\* handleMicPress: the step in which a flow fails sets voiceState to error and
\* errorMessage to a non-empty text, and a flow that waits for the microphone
\* or the recognizer leaves that wait only towards the recognizer, the success
\* outcome or the error outcome.
C19_FailuresBecomeErrorState ==
    [][\A f \in Flows :
        /\ (flows[f].pc # "errTimer" /\ flows'[f].pc = "errTimer") =>
              /\ voiceState' = "error"
              /\ errorMessage' # NoMessage
              /\ errorMessage'.text # ""
              /\ flows'[f].outcome = "error"
        /\ (InFlight(f) /\ flows'[f].pc # flows[f].pc) =>
              flows'[f].pc \in {"recog", "succTimer", "errTimer"}
        /\ (Free(f) /\ flows'[f].pc \notin {"unused", "done"}) =>
              flows'[f].pc \in {"gum", "errTimer"}]_vars

\* the permission was denied to a flow, and the modal shows the message for it
C19_Witness ==
    /\ voiceState = "error"
    /\ errorMessage = DeniedMsg
    /\ \E f \in Flows :
         /\ flows[f].pc = "errTimer"
         /\ flows[f].outcome = "error"
         /\ flows[f].transcript = <<>>

\* C24: while a flow has not reached its outcome and the modal was not closed
\* over it, voiceState stays in {recording, processing}: no auto-reset timer
\* left over from an earlier error sets it to idle.
C24_NoStaleReset ==
    \A f \in Flows :
        (InFlight(f) /\ ~flows[f].cancelled)
            => voiceState \in {"recording", "processing"}

\* C22: within one speechToText call the edge function is requested at most
\* once and the fallback is started at most once, and only after the primary
\* attempt failed; a failure of the fallback rejects the call, and a settled
\* call makes no further attempt.
C22_OneAttemptEach ==
    [][\A c \in Calls :
        /\ calls'[c].requests <= 1
        /\ calls'[c].fallbacks <= 1
        /\ calls'[c].fallbacks = 1 => calls'[c].primaryError # "none"
        /\ (calls[c].pc = "fallback" /\ calls'[c].pc # "fallback") =>
              /\ calls'[c].pc \in {"resolved", "rejected"}
              /\ calls'[c].pc = "rejected" => calls'[c].error # ""
        /\ calls[c].pc \in {"resolved", "rejected"} => calls'[c] = calls[c]]_vars

\* the request was made and failed, the recognizer of the fallback failed too,
\* and the call has rejected
C22_Witness ==
    \E c \in Calls :
        /\ calls[c].pc = "rejected"
        /\ calls[c].requests = 1
        /\ calls[c].fallbacks = 1
        /\ calls[c].primaryError = ToString(503)
        /\ calls[c].error = FallbackMessage("no-speech")

\* C23: the fallback is not attempted for input-validation failures: when the
\* primary path failed because the recording is empty or because the edge
\* function answered 400, the call rejects and the recognizer is not started.
C23_NoFallbackForValidation ==
    \A c \in Calls :
        calls[c].primaryError \in {"No audio data was recorded.",
                                   "No audio data recorded.", ToString(400)}
            => /\ calls[c].fallbacks = 0
               /\ calls[c].pc = "rejected"

\* C25: every speechToText call eventually resolves or rejects once the
\* microphone permission was answered, whatever the recorder and the
\* recognizer do, a recognizer that is stopped by the timeout and ends with
\* neither result nor error included.
C25_CallSettles ==
    \A c \in Calls :
        (calls[c].pc \in {"recording", "fetch", "fallback"})
            ~> (calls[c].pc \in {"resolved", "rejected"})

\* C26: isRecording of useVoiceChat is true for as long as a startRecording
\* call is in flight, so that the guard of handleVoiceInput blocks a second
\* start during that whole interval.
C26_RecordingWhileInFlight ==
    (\E c \in Calls : calls[c].pc \in {"gum", "recording", "fetch", "fallback"})
        => isRecording

(***************************************************************************)
(* The edge function.                                                      *)
(***************************************************************************)
\* C11: once the provider was called, the status of the response is 401 for
\* an upstream 401, 429 for 429, 503 for any upstream status >= 500, the
\* upstream status itself for any other non-2xx, 408 for an abort after the
\* timeout, 503 for any other network failure, and 502 for a success whose
\* body cannot be parsed.
C11_UpstreamStatusMapping ==
    (edge.pc \in {"responded", "read"} /\ edge.upstreamCalls = 1) =>
        IF edge.upstreamError = "AbortError" THEN edge.status = 408
        ELSE IF edge.upstreamError # "none" THEN edge.status = 503
        ELSE IF edge.upstreamStatus = 401 THEN edge.status = 401
        ELSE IF edge.upstreamStatus = 429 THEN edge.status = 429
        ELSE IF edge.upstreamStatus >= 500 THEN edge.status = 503
        ELSE IF edge.upstreamStatus \notin 200..299
        THEN edge.status = edge.upstreamStatus
        ELSE edge.provider.kind = "unparsable" => edge.status = 502

\* C12: the provider is called only for decoded audio of a length L with
\* 0 < L <= 2 MiB, and a request whose audio is missing, empty or oversize is
\* answered with status 400 and causes no call of the provider.
C12_OnlyValidAudioForwarded ==
    LET req == edge.req
        missing ==
            IF req.contentType = "multipart" THEN req.file.kind = "none"
            ELSE req.body = "null" \/ (req.body = "object" /\ req.audio.kind = "missing")
        decoded ==
            IF req.contentType = "multipart"
            THEN IF req.file.kind = "file" THEN <<req.file.size>> ELSE <<>>
            ELSE IF req.body # "object" \/ req.audio.kind = "missing" THEN <<>>
            ELSE IF req.audio.kind = "empty" THEN <<0>>
            ELSE atob(req.audio)
        refused ==
            \/ missing
            \/ decoded # <<>> /\ (decoded[1] = 0 \/ decoded[1] > MAX_AUDIO_SIZE)
    IN  /\ edge.upstreamCalls > 0 =>
            (0 < edge.length /\ edge.length <= MAX_AUDIO_SIZE)
        /\ (edge.pc # "idle" /\ req.method = "POST" /\ refused) =>
            (edge.pc = "responded" /\ edge.status = 400 /\ edge.upstreamCalls = 0)

\* C13: every successful transcription response is fully shaped whatever the
\* provider sent: text is the provider's string and "" otherwise, segments the
\* provider's array and the empty array otherwise, duration the provider's
\* number and 0 otherwise, language the provider's string and the requested
\* language otherwise; the result speechToText returns from it has a string
\* text, a number duration, an array of segments and the language asked for.
C13_SuccessResponseShaped ==
    LET p == edge.provider
        b == edge.body
        c == edge.client
    IN  /\ (edge.pc \in {"responded", "read"} /\ edge.upstreamCalls = 1
            /\ edge.status \in 200..299) =>
              /\ p.kind = "object"
              /\ b.text = IF p.text.t = "string" THEN p.text ELSE Str("")
              /\ b.segments = IF p.segments.t = "array" THEN p.segments ELSE Arr("[]")
              /\ b.duration = IF p.duration.t = "number" THEN p.duration ELSE Num("0")
              /\ b.language = IF p.language.t = "string" THEN p.language
                              ELSE Str(Language(edge.req))
        /\ (edge.pc = "read" /\ c.state = "result") =>
              /\ c.text.t = "string" /\ c.text = b.text
              /\ c.duration.t = "number"
              /\ c.segments.t = "array"
              /\ c.language = Str(Language(edge.req))

\* a success read by the client although the provider sent a number as text,
\* a string as duration, no segments and no language
C13_Witness ==
    /\ edge.pc = "read" /\ edge.status = 200 /\ edge.client.state = "result"
    /\ edge.provider.text.t = "number"
    /\ edge.provider.segments = Missing
    /\ edge.provider.language = Missing
    /\ edge.provider.duration.t = "string"
    /\ edge.client.text = Str("")
    /\ edge.client.segments = Arr("[]")
    /\ edge.client.duration = Num("0")

(***************************************************************************)
(* The parser.                                                             *)
(***************************************************************************)
\* C15: for every transcript in which a blood pressure pattern matches with
\* the numbers N and M, the metrics returned have blood_pressure = "N/M" and
\* a heart_rate, if any, that is neither N nor M.
C15_BloodPressureNotHeartRate ==
    extract.pc = "returned" =>
        \A bpm \in {BpMatch(toLowerCase(extract.transcript))} :
            bpm # <<>> =>
                /\ extract.metrics.blood_pressure = bpm[1] \o <<Slash>> \o bpm[2]
                /\ extract.metrics.heart_rate \notin {bpm[1], bpm[2]}

\* "blood pressure 120 over 80 pulse 80": 80 is not read as the heart rate
C15_Witness ==
    /\ extract.pc = "returned"
    /\ extract.transcript =
         Spaced(<<W("blood"), W("pressure"), N(<<1, 2, 0>>), W("over"), N(<<8, 0>>),
                  W("pulse"), N(<<8, 0>>)>>)
    /\ extract.metrics.blood_pressure = <<1, 2, 0, Slash, 8, 0>>
    /\ extract.metrics.heart_rate = <<>>

\* C16: a number already consumed by an earlier rule (a component of the blood
\* pressure pair, the heart rate, the weight) is never returned as
\* blood_glucose or temperature.
C16_ConsumedNotReused ==
    extract.pc = "returned" =>
        \A bpm \in {BpMatch(toLowerCase(extract.transcript))} :
            LET m == extract.metrics
                consumed ==
                    (IF bpm = <<>> THEN {} ELSE {bpm[1], bpm[2]})
                    \cup ({m.heart_rate, m.weight} \ {<<>>})
            IN  /\ m.blood_glucose \notin consumed
                /\ m.temperature \notin consumed

\* C20: a heart rate match is skipped exactly when its number is the systolic
\* or the diastolic value of the recorded blood pressure: the heart_rate
\* returned is the match of the first heart rate pattern whose number is
\* neither of the two.
C20_HeartRateSkippedOnlyForComponents ==
    extract.pc = "returned" =>
        \A text \in {toLowerCase(extract.transcript)} :
        \A bpm \in {BpMatch(text)} :
            LET components == IF bpm = <<>> THEN {} ELSE {bpm[1], bpm[2]}
                Neither(v) == v \notin components
            IN  extract.metrics.heart_rate =
                    FirstPassing(
                        MatchKwNum(text, {<<"heart", "rate">>, <<"pulse">>, <<"hr">>},
                                   FALSE),
                        MatchNumKw(text, {<<"beats", "per", "minute">>, <<"bpm">>},
                                   FALSE),
                        Neither)

\* C21: the weight block does not check prior consumption: the weight returned
\* is the number of the first weight pattern that matches, also when that
\* number is the heart rate or a component of the blood pressure, and it takes
\* part in the de-duplication: neither blood_glucose nor temperature repeats it.
C21_WeightUnchecked ==
    extract.pc = "returned" =>
        \A text \in {toLowerCase(extract.transcript)} :
        \A w \in {FirstOf(MatchKwNum(text, {<<"weight">>, <<"weigh">>}, TRUE),
                          MatchNumKw(text, {<<"pounds">>, <<"lbs">>, <<"kilograms">>,
                                            <<"kg">>}, TRUE))} :
            /\ extract.metrics.weight = w
            /\ w # <<>> => /\ extract.metrics.blood_glucose # w
                           /\ extract.metrics.temperature # w

\* "pulse 80 80 kg": 80 is the heart rate and the weight
C21_Witness ==
    /\ extract.pc = "returned"
    /\ extract.transcript = Spaced(<<W("pulse"), N(<<8, 0>>), N(<<8, 0>>), W("kg")>>)
    /\ extract.metrics.heart_rate = <<8, 0>>
    /\ extract.metrics.weight = <<8, 0>>

\* C29: on the JSON path every base64 payload that decodes to at least one
\* and at most MAX_AUDIO_SIZE bytes passes the size checks, the estimate
\* len*3/4 included, as a file of that size does on the multipart path: with
\* the API key set, the request is forwarded to the provider.
C29_EstimateAgrees ==
    (/\ edge.pc # "idle"
     /\ edge.req.contentType = "json"
     /\ edge.req.body = "object"
     /\ edge.req.audio.kind = "base64"
     /\ ~edge.req.audio.wrapped
     /\ atob(edge.req.audio) # <<>>
     /\ edge.apiKey)
        => \A n \in {atob(edge.req.audio)[1]} :
             n \in 1..MAX_AUDIO_SIZE
                => /\ edge.upstreamCalls = 1
                   /\ Multipart(NoEdge, [NoRequest EXCEPT
                          !.file = [kind |-> "file", size |-> n]]).pc
                        = "upstream"

(***************************************************************************)
(* The speaker control.                                                    *)
(***************************************************************************)
NoSpeakInFlight ==
    \A s \in Speaks : speech.speaks[s].pc \notin {"fetch", "playing"}

\* C27: once a speakText call has settled, by finished playback or by a
\* failure of text-to-speech, and none is in flight, isPlaying is false, and
\* a failure has set the error of the hook; the 'Audio Playing' guard of
\* handleTextToSpeech does not block on a playback that is over.
C27_NotPlayingAfterSettle ==
    NoSpeakInFlight =>
        /\ ~speech.isPlaying
        /\ \A s \in Speaks :
             (/\ speech.speaks[s].pc = "rejected"
              /\ \A d \in Speaks : d > s => speech.speaks[d].pc = "unused")
                 => speech.error # ""

\* C28: a textToSpeech call whose remote request or playback failed goes to
\* the speech-synthesis fallback: it is never rejected with the error of the
\* remote path, only with an error of the fallback.
C28_FallbackOnFailure ==
    \A s \in Speaks :
        speech.speaks[s].pc = "rejected"
            => speech.speaks[s].error \in FallbackTtsErrors

(***************************************************************************)
(* The chat screen.                                                        *)
(***************************************************************************)
\* C30: for a user without unlimited conversations, no step takes the number
\* of user messages stored by sendMessage above MAX_FREE_MESSAGES, and no
\* step lowers the daily count in localStorage, however typed sends and
\* voice inputs with a later transcription interleave.
C30_DailyLimitHolds ==
    [][~chat.unlimited =>
          /\ chat'.accepted <= MAX_FREE_MESSAGES
          /\ StoredCount(chat') >= StoredCount(chat)]_vars
====
